---- MODULE Spec2Model ----
(***************************************************************************)
(* nrf-smartled: WS2812 driver on the nRF52 PWM peripheral (src/src/pwm.rs). *)
(*                                                                         *)
(* Three specifications share this module:                                 *)
(*   Spec    the driver (SmartLedsWrite::write and Pwm::send_full_buf, in  *)
(*           any sequence) running against the asynchronous PWM/EasyDMA    *)
(*           sequence engine;                                              *)
(*   SpecRaw the raw interface (start_send_raw, set_seq1_raw) called with  *)
(*           arbitrary buffers, against the same engine;                   *)
(*   SpecFn  the pure functions fill_buf, u16s_needed_ct, u16s_needed_slice *)
(*           applied to inputs drawn from bounded sets.                    *)
(***************************************************************************)
EXTENDS Integers, Sequences, FiniteSets, TLC

VARIABLES
    \* ---- the call of SmartLedsWrite::write in progress (CPU side)
    pc,             \* position of the CPU inside write ("idle": no call)
    ret,            \* result of the last call: "none", "Ok" or "Err"
    iter,           \* what the caller's iterator will still yield
    addr_a, addr_b, \* addresses of the stack buffers buf_a, buf_b
    buf_a, buf_b,   \* contents of the two ping-pong buffers
    live,           \* TRUE while buf_a and buf_b exist (write's stack frame)
    blanks_fed, toggle,
    seq,            \* the item the for loop is working on
    chain_a,        \* TRUE while Chain still polls the caller's iterator
    pad,            \* blanks left in the chained [Data::Blank; 3]
    grp,            \* fill_buf's progress: loops already run (0..3)
    \* ---- PWM registers
    loop_cnt, seq0_ptr, seq0_cnt, seq1_ptr, seq1_cnt,
    events_seqend0, events_loopsdone,
    \* ---- PWM sequence engine (internal state of the peripheral)
    hw_state,       \* "idle", "seq0" or "seq1"
    hw_pos,         \* samples of the current sequence already fetched
    hw_loops,       \* loop counter (loaded from LOOP.CNT by SEQSTART)
    \* ---- observation (history, no influence on the program)
    input,          \* the iterator as it was given to the call
    yielded,        \* what Iterator::next has returned so far
    played,         \* frames the engine has shifted out during the call
    cur,            \* samples fetched for the frame being shifted out
    hw_writes,      \* PWM register/event/task writes made by the call
    at_call,        \* registers and engine state when the call began (kept
                    \* until the call writes its first register)
    wrote,          \* the buffer the CPU's last step stored into, or "none"
    dead_reads,     \* TRUE once the engine fetched from a dead buffer
    \* ---- the caller's side of send_full_buf and of the raw interface
    call,           \* the operation called last ("none" before the first)
    colors,         \* send_full_buf's colors slice
    scratch,        \* contents of the buffer the caller handed in
    addr_s,         \* its address
    sent,           \* sequences the engine completed outside write, raw
    \* ---- SpecFn: one application of a pure function
    fn_op, fn_pc, fn_color, fn_buf, fn_slice, fn_leds, fn_checks, fn_out

cpuVars == <<pc, ret, iter, addr_a, addr_b, buf_a, buf_b, live, blanks_fed,
             toggle, seq, chain_a, pad, grp>>
regVars == <<loop_cnt, seq0_ptr, seq0_cnt, seq1_ptr, seq1_cnt,
             events_seqend0, events_loopsdone>>
engVars == <<hw_state, hw_pos, hw_loops>>
obsVars == <<input, yielded, played, cur, hw_writes, at_call, wrote,
             dead_reads>>
sfbVars == <<call, colors, scratch, addr_s, sent>>
fnVars  == <<fn_op, fn_pc, fn_color, fn_buf, fn_slice, fn_leds, fn_checks,
             fn_out>>
vars    == <<cpuVars, regVars, engVars, obsVars, sfbVars, fnVars>>

(***************************************************************************)
(* Bounds of the model.                                                    *)
(***************************************************************************)
MaxItems   == 4    \* longest iterator script given to write
MaxChanIdx == 4    \* channel values sampled for fill_buf: 0..MaxChanIdx strides
MaxBufLen  == 26   \* longest destination handed to fill_buf
MaxLeds    == 40   \* small LED counts handed to u16s_needed_ct
MaxSlice   == 3    \* longest slice handed to u16s_needed_slice
NearSpan   == 3    \* LED counts this close to the overflow threshold
MaxColors  == 2    \* longest colors slice given to send_full_buf
MaxSpare   == 2    \* most slots a scratch buffer has beyond the needed ones
MaxRawLen  == 2    \* longest buffer handed to start_send_raw / set_seq1_raw

(***************************************************************************)
(* Symbols (pwm.rs: the duty-cycle values fill_buf and write store).       *)
(***************************************************************************)
T1H  == 32781      \* 0x8000 | 13
T0H  == 32773      \* 0x8000 | 5
IDLE == 32768      \* 0x8000
FRAME == 24        \* u16s per pixel frame

Bit(x, i) == (x \div (2 ^ i)) % 2

\* u8::reverse_bits
reverse_bits_noop(x) == x
reverse_bits(x) ==
    Bit(x, 0) * 128 + Bit(x, 1) * 64 + Bit(x, 2) * 32 + Bit(x, 3) * 16
  + Bit(x, 4) * 8 + Bit(x, 5) * 4 + Bit(x, 6) * 2 + Bit(x, 7)

\* One of fill_buf's three loops: for i in 0..8 { buf[base + i] = ... }
\* (Rust indices are 0-based, TLA+ sequences 1-based).
FillGroup(buf, base, byte) ==
    [j \in DOMAIN buf |->
        IF (j - 1) \in base .. (base + 7)
        THEN (IF Bit(byte, j - 1 - base) = 1 THEN T1H ELSE T0H)
        ELSE buf[j]]

\* fill_buf's loop number k (0: green, 1: red, 2: blue) on buf
FillStep(color, buf, k) ==
    CASE k = 0 -> FillGroup(buf, 0, reverse_bits(color.g))
      [] k = 1 -> FillGroup(buf, 8, reverse_bits(color.r))
      [] k = 2 -> FillGroup(buf, 16, reverse_bits(color.b))

\* if buf.len() < 24 { return Err(()) }
TooShort_off(buf) == Len(buf) < 8
TooShort(buf) == Len(buf) < FRAME

fill_buf(color, buf) ==
    IF TooShort(buf)
    THEN [res |-> "Err", buf |-> buf]
    ELSE [res |-> "Ok",
          buf |-> FillStep(color, FillStep(color, FillStep(color, buf, 0), 1), 2)]

\* buf.copy_from_slice(&[0x8000u16; 24])
BlankFrame == [j \in 1 .. FRAME |-> IDLE]

(***************************************************************************)
(* usize arithmetic.  The targets (nRF52810/52832/52840) are 32-bit, so a  *)
(* usize is kept as two 16-bit limbs [hi, lo]; an operation returns the    *)
(* wrapped value and whether it overflowed.                                *)
(***************************************************************************)
LIMB == 2 ^ 16

Usize(h, l) == [hi |-> h, lo |-> l]

usize_mul(x, k) ==
    LET low  == x.lo * k
        high == x.hi * k + (low \div LIMB)
    IN  [v |-> Usize(high % LIMB, low % LIMB), ovf |-> high >= LIMB]

usize_add(x, k) ==
    LET low  == x.lo + k
        high == x.hi + (low \div LIMB)
    IN  [v |-> Usize(high % LIMB, low % LIMB), ovf |-> high >= LIMB]

\* leds * 24 + 40: with overflow checks (debug profile) an overflow panics,
\* without them (release profile) the value wraps.
u16s_needed_ct_add24(leds, checks) ==
    LET m == usize_add(leds, 24)
        a == usize_add(m.v, 40)
    IN  IF checks /\ (m.ovf \/ a.ovf)
        THEN [kind |-> "panic", v |-> Usize(0, 0)]
        ELSE [kind |-> "val", v |-> a.v]
u16s_needed_ct(leds, checks) ==
    LET m == usize_mul(leds, 24)
        a == usize_add(m.v, 40)
    IN  IF checks /\ (m.ovf \/ a.ovf)
        THEN [kind |-> "panic", v |-> Usize(0, 0)]
        ELSE [kind |-> "val", v |-> a.v]

\* u16s_needed_ct(slice.len())
u16s_needed_slice(slice, checks) == u16s_needed_ct(Usize(0, Len(slice)), checks)

(***************************************************************************)
(* Values handed around by write.                                          *)
(***************************************************************************)
Black == [r |-> 0, g |-> 0, b |-> 0]

Some(c) == [tag |-> "Some", v |-> c]
None    == [tag |-> "None", v |-> Black]

\* enum Data { Pixel(RGB8), Blank }
Pixel(c) == [tag |-> "Pixel", v |-> c]
Blank    == [tag |-> "Blank", v |-> Black]

\* The color the caller's iterator yields at position i, when it yields one:
\* a different color at every position, so that a frame names its position
Palette(i) == [r |-> (i * 37) % 256, g |-> (i * 101 + 1) % 256, b |-> 255 - i]

\* An iterator is the script of what its next() calls return: at position i
\* Some(Palette(i)) or None; once the script is used up it returns None.
\* A script ending in None adds nothing.
RECURSIVE ScriptsOfLen(_)
ScriptsOfLen(n) ==
    IF n = 0 THEN {<<>>}
    ELSE {Append(s, x) : s \in ScriptsOfLen(n - 1), x \in {Some(Palette(n)), None}}

Scripts ==
    {s \in UNION {ScriptsOfLen(n) : n \in 0 .. MaxItems} :
        s = <<>> \/ s[Len(s)].tag = "Some"}

\* Iterator::next on the caller's iterator
IterNext(it) == IF it = <<>> THEN None ELSE Head(it)
IterRest(it) == IF it = <<>> THEN <<>> ELSE Tail(it)

(***************************************************************************)
(* The DMA window (hal::target_constants) and where write's stack frame    *)
(* may lie: inside the window, with buf_a below it, with buf_b above it.   *)
(***************************************************************************)
SRAM_LOWER == 536870912     \* 0x2000_0000
SRAM_UPPER == 805306368     \* 0x3000_0000

StackFrames ==
    { <<SRAM_LOWER + 4096, SRAM_LOWER + 4096 + 2 * FRAME>>,
      <<SRAM_LOWER - 2 * FRAME, SRAM_LOWER>>,
      <<SRAM_UPPER, SRAM_UPPER + 2 * FRAME>> }

\* (ptr < SRAM_LOWER) || (ptr > SRAM_UPPER)
PtrOutOfRange(ptr) == ptr < SRAM_LOWER \/ ptr > SRAM_UPPER

\* The pre-flight checks of start_send_raw and set_seq1_raw
RawRejects_emptyOnly(len, ptr) == len = 0
RawRejects(len, ptr) == len = 0 \/ PtrOutOfRange(ptr)

\* Where a scratch buffer handed to send_full_buf may lie: inside the
\* window or below it
ScratchAddrs == {SRAM_LOWER + 8192, SRAM_LOWER - 4096}

\* The raw interface: its operations, the addresses the model hands them
\* (around both ends of the window and inside it), and what the caller keeps
\* at those addresses for as long as the engine may read it (the SAFETY
\* contract of start_send_raw and set_seq1_raw)
RawOps == {"start_send_raw", "set_seq1_raw"}

RawPtrs == {SRAM_LOWER - 2, SRAM_LOWER, SRAM_LOWER + 16384,
            SRAM_UPPER - 2, SRAM_UPPER, SRAM_UPPER + 2}

RawMemory == [j \in 1 .. MaxRawLen |-> IDLE]

(***************************************************************************)
(* What a strip sees of one shifted-out frame.                             *)
(***************************************************************************)
DecodeByte(f, base) ==
    LET b(i) == IF f[base + i + 1] = T1H THEN 1 ELSE 0
    IN  b(0) * 128 + b(1) * 64 + b(2) * 32 + b(3) * 16
      + b(4) * 8 + b(5) * 4 + b(6) * 2 + b(7)

Decode(f) ==
    IF Len(f) = FRAME /\ \A j \in 1 .. FRAME : f[j] = IDLE
    THEN [kind |-> "idle", c |-> Black]
    ELSE IF Len(f) = FRAME /\ \A j \in 1 .. FRAME : f[j] \in {T1H, T0H}
    THEN [kind |-> "pixel",
          c |-> [r |-> DecodeByte(f, 8), g |-> DecodeByte(f, 0), b |-> DecodeByte(f, 16)]]
    ELSE [kind |-> "torn", c |-> Black]

IdleFrame == [kind |-> "idle", c |-> Black]
PixelFrame(c) == [kind |-> "pixel", c |-> c]

(***************************************************************************)
(* The PWM sequence engine.  It runs on its own clock: after SEQSTART[0]   *)
(* it fetches sequence 0 sample by sample over EasyDMA, raises SEQEND[0],  *)
(* and, when the loop counter is not zero, goes on with sequence 1 and     *)
(* raises LOOPSDONE when the counter reaches zero.  Pwm::new leaves SHORTS *)
(* at its reset value, so nothing restarts the engine but the CPU.         *)
(***************************************************************************)
ZeroBuf == [j \in 1 .. FRAME |-> 0]

\* The memory a sequence pointer designates; <<>> when nothing lives there
MemAt(ptr) ==
    IF live /\ ptr = addr_a THEN buf_a
    ELSE IF live /\ ptr = addr_b THEN buf_b
    ELSE IF call = "send_full_buf" /\ pc # "idle" /\ ptr = addr_s THEN scratch
    ELSE IF call \in RawOps /\ ptr \in RawPtrs THEN RawMemory
    ELSE <<>>

SeqPtr == IF hw_state = "seq0" THEN seq0_ptr ELSE seq1_ptr
SeqCnt == IF hw_state = "seq0" THEN seq0_cnt ELSE seq1_cnt

\* The log of a completed sequence: write's are kept as the frame a strip
\* sees, the others sample by sample
Shifted(n) ==
    /\ played' = IF call = "write" THEN Append(played, Decode(cur)) ELSE played
    /\ sent' = IF call = "write" THEN sent
               ELSE Append(sent, [seq |-> n, data |-> cur])
    /\ UNCHANGED <<call, colors, scratch, addr_s>>

\* EasyDMA fetches the next sample of the running sequence
HwFetch ==
    /\ hw_state # "idle"
    /\ hw_pos < SeqCnt
    /\ LET m == MemAt(SeqPtr)
       IN  /\ cur' = Append(cur, IF (hw_pos + 1) \in DOMAIN m THEN m[hw_pos + 1] ELSE 0)
           /\ dead_reads' = (dead_reads \/ (hw_pos + 1) \notin DOMAIN m)
    /\ hw_pos' = hw_pos + 1
    /\ wrote' = "none"
    /\ UNCHANGED <<cpuVars, regVars, hw_state, hw_loops, sfbVars, fnVars>>
    /\ UNCHANGED <<input, yielded, played, hw_writes, at_call>>

\* End of sequence 0: SEQEND[0]; sequence 1 follows when looping is enabled
HwSeqEnd0 ==
    /\ hw_state = "seq0"
    /\ hw_pos = seq0_cnt
    /\ events_seqend0' = 1
    /\ Shifted(0)
    /\ cur' = <<>>
    /\ hw_pos' = 0
    /\ hw_state' = IF hw_loops > 0 THEN "seq1" ELSE "idle"
    /\ wrote' = "none"
    /\ UNCHANGED <<cpuVars, loop_cnt, seq0_ptr, seq0_cnt, seq1_ptr, seq1_cnt,
                   events_loopsdone, hw_loops, fnVars>>
    /\ UNCHANGED <<input, yielded, hw_writes, at_call, dead_reads>>

\* End of sequence 1: one loop played; LOOPSDONE after the last one
HwSeqEnd1 ==
    /\ hw_state = "seq1"
    /\ hw_pos = seq1_cnt
    /\ Shifted(1)
    /\ cur' = <<>>
    /\ hw_pos' = 0
    /\ hw_loops' = IF hw_loops > 0 THEN hw_loops - 1 ELSE 0
    /\ IF hw_loops <= 1
       THEN hw_state' = "idle" /\ events_loopsdone' = 1
       ELSE hw_state' = "seq0" /\ UNCHANGED events_loopsdone
    /\ wrote' = "none"
    /\ UNCHANGED <<cpuVars, loop_cnt, seq0_ptr, seq0_cnt, seq1_ptr, seq1_cnt,
                   events_seqend0, fnVars>>
    /\ UNCHANGED <<input, yielded, hw_writes, at_call, dead_reads>>

\* tasks_seqstart[0].write(1): the engine (re)starts on sequence 0 with the
\* loop counter loaded from LOOP.CNT; a frame cut short shows as torn.
TaskSeqStart0 ==
    /\ hw_state' = "seq0"
    /\ hw_pos' = 0
    /\ hw_loops' = loop_cnt
    /\ played' = IF cur = <<>> THEN played ELSE Append(played, Decode(cur))
    /\ cur' = <<>>

(***************************************************************************)
(* SmartLedsWrite::write, one action per step the engine can interleave    *)
(* with.  A busy-wait is an action enabled once the awaited flag is set;   *)
(* the polls that read it unset change nothing.                            *)
(***************************************************************************)
\* at_call once the call has written a register: the snapshot is only kept
\* for as long as the hardware is as the call found it
NoSnapshot == <<<<0, 0, 0, 0, 0, 0, 0>>, <<"idle", 0, 0>>>>

\* What every CPU step does to the observation variables it does not set
Cpu(w, n) ==
    /\ wrote' = w
    /\ hw_writes' = hw_writes + n
    /\ UNCHANGED <<input, at_call, dead_reads, sfbVars, fnVars>>

\* return: the stack frame, and buf_a and buf_b with it, is gone
Return(r) ==
    /\ pc' = "idle"
    /\ ret' = r
    /\ live' = FALSE
    /\ iter' = <<>>
    /\ addr_a' = 0 /\ addr_b' = 0
    /\ buf_a' = ZeroBuf /\ buf_b' = ZeroBuf
    /\ blanks_fed' = 0 /\ toggle' = FALSE
    /\ seq' = Blank /\ chain_a' = FALSE /\ pad' = 0 /\ grp' = 0

\* Entry: let mut buf_a = [0u16; 24]; let mut buf_b = [0u16; 24];
\* let mut blanks_fed = 0; let mut toggle = false;
CallWrite ==
    /\ pc = "idle"
    /\ \E s \in Scripts, f \in StackFrames :
         /\ iter' = s /\ input' = s
         /\ addr_a' = f[1] /\ addr_b' = f[2]
    /\ pc' = "prime"
    /\ ret' = "none"
    /\ live' = TRUE
    /\ buf_a' = ZeroBuf /\ buf_b' = ZeroBuf
    /\ blanks_fed' = 0 /\ toggle' = FALSE
    /\ seq' = Blank /\ chain_a' = TRUE /\ pad' = 3 /\ grp' = 0
    /\ yielded' = <<>> /\ played' = <<>> /\ cur' = <<>>
    /\ hw_writes' = 0
    /\ wrote' = "none"
    /\ dead_reads' = FALSE
    /\ at_call' = <<regVars, engVars>>
    /\ call' = "write"
    /\ colors' = <<>> /\ scratch' = <<>> /\ addr_s' = 0 /\ sent' = <<>>
    /\ UNCHANGED <<regVars, engVars, fnVars>>

\* match (iterator.next(), iterator.next()): (Some(a), Some(b))
PrimeTwo ==
    /\ pc = "prime"
    /\ IterNext(iter).tag = "Some"
    /\ IterNext(IterRest(iter)).tag = "Some"
    /\ LET a == fill_buf(IterNext(iter).v, buf_a)
           b == fill_buf(IterNext(IterRest(iter)).v, buf_b)
       IN  IF a.res = "Err" \/ b.res = "Err"
           THEN Return("Err")
           ELSE /\ buf_a' = a.buf /\ buf_b' = b.buf
                /\ iter' = IterRest(IterRest(iter))
                /\ pc' = "setup_loop"
                /\ UNCHANGED <<ret, addr_a, addr_b, live, blanks_fed, toggle,
                               seq, chain_a, pad, grp>>
    /\ yielded' = yielded \o <<IterNext(iter), IterNext(IterRest(iter))>>
    /\ Cpu("both", 0)
    /\ UNCHANGED <<regVars, engVars, played, cur>>

\* (Some(a), None): one pixel and a blank
PrimeOne ==
    /\ pc = "prime"
    /\ IterNext(iter).tag = "Some"
    /\ IterNext(IterRest(iter)).tag = "None"
    /\ LET a == fill_buf(IterNext(iter).v, buf_a)
       IN  IF a.res = "Err"
           THEN Return("Err")
           ELSE /\ buf_a' = a.buf /\ buf_b' = BlankFrame
                /\ blanks_fed' = 1
                /\ iter' = IterRest(IterRest(iter))
                /\ pc' = "setup_loop"
                /\ UNCHANGED <<ret, addr_a, addr_b, live, toggle, seq, chain_a,
                               pad, grp>>
    /\ yielded' = yielded \o <<IterNext(iter), IterNext(IterRest(iter))>>
    /\ Cpu("both", 0)
    /\ UNCHANGED <<regVars, engVars, played, cur>>

\* (None, Some(_)): return Err(())
PrimeIntermittent ==
    /\ pc = "prime"
    /\ IterNext(iter).tag = "None"
    /\ IterNext(IterRest(iter)).tag = "Some"
    /\ Return("Err")
    /\ yielded' = yielded \o <<IterNext(iter), IterNext(IterRest(iter))>>
    /\ Cpu("none", 0)
    /\ UNCHANGED <<regVars, engVars, played, cur>>

\* _ (that is (None, None)): return Ok(())
PrimeEmpty_started ==
    /\ pc = "prime"
    /\ IterNext(iter).tag = "None"
    /\ IterNext(IterRest(iter)).tag = "None"
    /\ events_loopsdone' = 0
    /\ Return("Ok")
    /\ yielded' = yielded \o <<IterNext(iter), IterNext(IterRest(iter))>>
    /\ Cpu("none", 1)
    /\ UNCHANGED <<loop_cnt, seq0_ptr, seq0_cnt, seq1_ptr, seq1_cnt,
                   events_seqend0, engVars, played, cur>>
PrimeEmpty ==
    /\ pc = "prime"
    /\ IterNext(iter).tag = "None"
    /\ IterNext(IterRest(iter)).tag = "None"
    /\ Return("Ok")
    /\ yielded' = yielded \o <<IterNext(iter), IterNext(IterRest(iter))>>
    /\ Cpu("none", 0)
    /\ UNCHANGED <<regVars, engVars, played, cur>>

\* self.pwm.loop_.write(|w| w.cnt().bits(1))
SetupLoop ==
    /\ pc = "setup_loop"
    /\ loop_cnt' = 1
    /\ pc' = "setup_clear"
    /\ wrote' = "none"
    /\ hw_writes' = hw_writes + 1
    /\ at_call' = NoSnapshot
    /\ UNCHANGED <<input, dead_reads, sfbVars, fnVars>>
    /\ UNCHANGED <<ret, iter, addr_a, addr_b, buf_a, buf_b, live, blanks_fed,
                   toggle, seq, chain_a, pad, grp>>
    /\ UNCHANGED <<seq0_ptr, seq0_cnt, seq1_ptr, seq1_cnt, events_seqend0,
                   events_loopsdone, engVars, yielded, played, cur>>

\* self.pwm.events_loopsdone.write(|w| w.bits(0))
SetupClear ==
    /\ pc = "setup_clear"
    /\ events_loopsdone' = 0
    /\ pc' = "set_seq1"
    /\ Cpu("none", 1)
    /\ UNCHANGED <<ret, iter, addr_a, addr_b, buf_a, buf_b, live, blanks_fed,
                   toggle, seq, chain_a, pad, grp>>
    /\ UNCHANGED <<loop_cnt, seq0_ptr, seq0_cnt, seq1_ptr, seq1_cnt,
                   events_seqend0, engVars, yielded, played, cur>>

\* self.set_seq1_raw(&buf_b)?
SetSeq1 ==
    /\ pc = "set_seq1"
    /\ IF RawRejects(Len(buf_b), addr_b)
       THEN /\ Return("Err")
            /\ Cpu("none", 0)
            /\ UNCHANGED regVars
       ELSE /\ seq1_ptr' = addr_b
            /\ seq1_cnt' = Len(buf_b)
            /\ pc' = "start"
            /\ Cpu("none", 2)
            /\ UNCHANGED <<ret, iter, addr_a, addr_b, buf_a, buf_b, live,
                           blanks_fed, toggle, seq, chain_a, pad, grp>>
            /\ UNCHANGED <<loop_cnt, seq0_ptr, seq0_cnt, events_seqend0,
                           events_loopsdone>>
    /\ UNCHANGED <<engVars, yielded, played, cur>>

\* self.start_send_raw(&buf_a)?
StartSend ==
    /\ pc = "start"
    /\ IF RawRejects(Len(buf_a), addr_a)
       THEN /\ Return("Err")
            /\ Cpu("none", 0)
            /\ UNCHANGED <<regVars, engVars, played, cur>>
       ELSE /\ seq0_ptr' = addr_a
            /\ seq0_cnt' = Len(buf_a)
            /\ events_seqend0' = 0
            /\ TaskSeqStart0
            /\ pc' = "next"
            /\ Cpu("none", 4)
            /\ UNCHANGED <<ret, iter, addr_a, addr_b, buf_a, buf_b, live,
                           blanks_fed, toggle, seq, chain_a, pad, grp>>
            /\ UNCHANGED <<loop_cnt, seq1_ptr, seq1_cnt, events_loopsdone>>
    /\ UNCHANGED yielded

\* for seq in new_iter: Chain polls the caller's iterator until it returns
\* None once, then hands out the three blanks
LoopNext ==
    /\ pc = "next"
    /\ IF chain_a /\ IterNext(iter).tag = "Some"
       THEN /\ seq' = Pixel(IterNext(iter).v)
            /\ iter' = IterRest(iter)
            /\ yielded' = Append(yielded, IterNext(iter))
            /\ pc' = IF toggle THEN "waitB" ELSE "waitA"
            /\ UNCHANGED <<chain_a, pad>>
       ELSE /\ chain_a' = FALSE
            /\ iter' = IF chain_a THEN IterRest(iter) ELSE iter
            /\ yielded' = IF chain_a THEN Append(yielded, None) ELSE yielded
            /\ IF pad > 0
               THEN /\ seq' = Blank
                    /\ pad' = pad - 1
                    /\ pc' = IF toggle THEN "waitB" ELSE "waitA"
               ELSE /\ pc' = "final"
                    /\ UNCHANGED <<seq, pad>>
    /\ Cpu("none", 0)
    /\ UNCHANGED <<ret, addr_a, addr_b, buf_a, buf_b, live, blanks_fed, toggle, grp>>
    /\ UNCHANGED <<regVars, engVars, played, cur>>

\* pub fn is_done_raw(&self) -> bool
is_done_raw == events_seqend0 = 1

\* A side: while !self.is_done_raw() {}
WaitSeqEnd ==
    /\ pc = "waitA"
    /\ is_done_raw
    /\ pc' = "fillA"
    /\ Cpu("none", 0)
    /\ UNCHANGED <<ret, iter, addr_a, addr_b, buf_a, buf_b, live, blanks_fed,
                   toggle, seq, chain_a, pad, grp>>
    /\ UNCHANGED <<regVars, engVars, yielded, played, cur>>

\* A side, Data::Pixel(p): fill_buf(&p, &mut buf_a)?, one of its loops per
\* step; after the last one toggle = !toggle
RefillAPixel ==
    /\ pc = "fillA"
    /\ seq.tag = "Pixel"
    /\ IF TooShort(buf_a)
       THEN Return("Err")
       ELSE /\ buf_a' = FillStep(seq.v, buf_a, grp)
            /\ grp' = IF grp = 2 THEN 0 ELSE grp + 1
            /\ toggle' = IF grp = 2 THEN ~toggle ELSE toggle
            /\ pc' = IF grp = 2 THEN "next" ELSE "fillA"
            /\ UNCHANGED <<ret, iter, addr_a, addr_b, buf_b, live, blanks_fed,
                           seq, chain_a, pad>>
    /\ Cpu("a", 0)
    /\ UNCHANGED <<regVars, engVars, yielded, played, cur>>

\* A side, Data::Blank: buf_a.copy_from_slice(..); blanks_fed += 1
RefillABlank_nocount ==
    /\ pc = "fillA"
    /\ seq.tag = "Blank"
    /\ buf_a' = BlankFrame
    /\ toggle' = ~toggle
    /\ pc' = "next"
    /\ Cpu("a", 0)
    /\ UNCHANGED <<ret, iter, addr_a, addr_b, buf_b, live, seq, chain_a, pad, grp,
                   blanks_fed>>
    /\ UNCHANGED <<regVars, engVars, yielded, played, cur>>
RefillABlank ==
    /\ pc = "fillA"
    /\ seq.tag = "Blank"
    /\ buf_a' = BlankFrame
    /\ blanks_fed' = blanks_fed + 1
    /\ toggle' = ~toggle
    /\ pc' = "next"
    /\ Cpu("a", 0)
    /\ UNCHANGED <<ret, iter, addr_a, addr_b, buf_b, live, seq, chain_a, pad, grp>>
    /\ UNCHANGED <<regVars, engVars, yielded, played, cur>>

\* B side: while self.pwm.events_loopsdone.read().bits() == 0 {}
WaitLoopsDone_nowait ==
    /\ pc = "waitB"
    /\ pc' = "restart"
    /\ Cpu("none", 0)
    /\ UNCHANGED <<ret, iter, addr_a, addr_b, buf_a, buf_b, live, blanks_fed,
                   toggle, seq, chain_a, pad, grp>>
    /\ UNCHANGED <<regVars, engVars, yielded, played, cur>>
WaitLoopsDone ==
    /\ pc = "waitB"
    /\ events_loopsdone # 0
    /\ pc' = "restart"
    /\ Cpu("none", 0)
    /\ UNCHANGED <<ret, iter, addr_a, addr_b, buf_a, buf_b, live, blanks_fed,
                   toggle, seq, chain_a, pad, grp>>
    /\ UNCHANGED <<regVars, engVars, yielded, played, cur>>

\* self.pwm.tasks_seqstart[0].write(|w| w.bits(1))
RestartSeq0 ==
    /\ pc = "restart"
    /\ TaskSeqStart0
    /\ pc' = "clear_seqend"
    /\ Cpu("none", 1)
    /\ UNCHANGED <<ret, iter, addr_a, addr_b, buf_a, buf_b, live, blanks_fed,
                   toggle, seq, chain_a, pad, grp>>
    /\ UNCHANGED <<regVars, yielded>>

\* self.pwm.events_seqend[0].write(|w| w.bits(0))
ClearSeqEnd ==
    /\ pc = "clear_seqend"
    /\ events_seqend0' = 0
    /\ pc' = "clear_loopsdone"
    /\ Cpu("none", 1)
    /\ UNCHANGED <<ret, iter, addr_a, addr_b, buf_a, buf_b, live, blanks_fed,
                   toggle, seq, chain_a, pad, grp>>
    /\ UNCHANGED <<loop_cnt, seq0_ptr, seq0_cnt, seq1_ptr, seq1_cnt,
                   events_loopsdone, engVars, yielded, played, cur>>

\* self.pwm.events_loopsdone.write(|w| w.bits(0))
ClearLoopsDone ==
    /\ pc = "clear_loopsdone"
    /\ events_loopsdone' = 0
    /\ pc' = "fillB"
    /\ Cpu("none", 1)
    /\ UNCHANGED <<ret, iter, addr_a, addr_b, buf_a, buf_b, live, blanks_fed,
                   toggle, seq, chain_a, pad, grp>>
    /\ UNCHANGED <<loop_cnt, seq0_ptr, seq0_cnt, seq1_ptr, seq1_cnt,
                   events_seqend0, engVars, yielded, played, cur>>

\* if blanks_fed >= 2 { break; }  (n: blanks_fed after this refill)
BreakNow_late(n) == n >= 3
BreakNow(n) == n >= 2

\* B side, Data::Pixel(p): fill_buf(&p, &mut buf_b)?; then the cutoff check
\* and toggle = !toggle
RefillBPixel ==
    /\ pc = "fillB"
    /\ seq.tag = "Pixel"
    /\ IF TooShort(buf_b)
       THEN Return("Err")
       ELSE /\ buf_b' = FillStep(seq.v, buf_b, grp)
            /\ grp' = IF grp = 2 THEN 0 ELSE grp + 1
            /\ toggle' = IF grp = 2 /\ ~BreakNow(blanks_fed) THEN ~toggle ELSE toggle
            /\ pc' = IF grp = 2
                     THEN (IF BreakNow(blanks_fed) THEN "final" ELSE "next")
                     ELSE "fillB"
            /\ UNCHANGED <<ret, iter, addr_a, addr_b, buf_a, live, blanks_fed,
                           seq, chain_a, pad>>
    /\ Cpu("b", 0)
    /\ UNCHANGED <<regVars, engVars, yielded, played, cur>>

\* B side, Data::Blank: buf_b.copy_from_slice(..); blanks_fed += 1; cutoff
RefillBBlank ==
    /\ pc = "fillB"
    /\ seq.tag = "Blank"
    /\ buf_b' = BlankFrame
    /\ blanks_fed' = blanks_fed + 1
    /\ toggle' = IF BreakNow(blanks_fed + 1) THEN toggle ELSE ~toggle
    /\ pc' = IF BreakNow(blanks_fed + 1) THEN "final" ELSE "next"
    /\ Cpu("b", 0)
    /\ UNCHANGED <<ret, iter, addr_a, addr_b, buf_a, live, seq, chain_a, pad, grp>>
    /\ UNCHANGED <<regVars, engVars, yielded, played, cur>>

\* while self.pwm.events_loopsdone.read().bits() == 0 {}  Ok(())
FinalWait_nowait ==
    /\ pc = "final"
    /\ Return("Ok")
    /\ Cpu("none", 0)
    /\ UNCHANGED <<regVars, engVars, yielded, played, cur>>
FinalWait ==
    /\ pc = "final"
    /\ events_loopsdone # 0
    /\ Return("Ok")
    /\ Cpu("none", 0)
    /\ UNCHANGED <<regVars, engVars, yielded, played, cur>>

(***************************************************************************)
(* Pwm::send_full_buf: the whole strip encoded into the caller's scratch   *)
(* buffer and sent as one sequence.                                        *)
(***************************************************************************)
TAIL == 40         \* let end = start + 40

\* What a scratch buffer of n slots holds when the caller hands it in
OldData(n) == [j \in 1 .. n |-> 4000 + j]

\* Colors slices of up to MaxColors colors, one color per position
ColorSlices == {[i \in 1 .. n |-> Palette(i)] : n \in 0 .. MaxColors}

\* Scratch lengths tried for n colors: none, one short, exact, and spare
ScratchLens(n) ==
    {0, FRAME * n + TAIL - 1} \cup {FRAME * n + TAIL + d : d \in 0 .. MaxSpare}

\* scratch.len() < Self::u16s_needed_slice(colors)
ScratchTooShort_off(len, needed) ==
    needed.kind = "val" /\ needed.v.hi = 0 /\ len + 1 < needed.v.lo
ScratchTooShort(len, needed) ==
    needed.kind = "val" /\ (needed.v.hi > 0 \/ len < needed.v.lo)

\* for (color, buf) in colors.iter().zip(scratch.chunks_exact_mut(24))
\*     { fill_buf(color, buf)?; }
\* res is Err when a fill_buf failed, buf the scratch after the loop
FillChunks(cs, buf) ==
    LET zipped == IF Len(cs) < Len(buf) \div FRAME THEN Len(cs) ELSE Len(buf) \div FRAME
        chunk(i) == fill_buf(cs[i], SubSeq(buf, FRAME * (i - 1) + 1, FRAME * i))
    IN  [res |-> IF \E i \in 1 .. zipped : chunk(i).res = "Err" THEN "Err" ELSE "Ok",
         buf |-> [j \in DOMAIN buf |->
                    IF j <= FRAME * zipped
                    THEN chunk(((j - 1) \div FRAME) + 1).buf[((j - 1) % FRAME) + 1]
                    ELSE buf[j]]]

\* for by in &mut scratch[start..end] { *by = 0x8000; }
IdleTail_short(buf, start, end) ==
    [j \in DOMAIN buf |-> IF j > start /\ j < end THEN IDLE ELSE buf[j]]
IdleTail(buf, start, end) ==
    [j \in DOMAIN buf |-> IF j > start /\ j <= end THEN IDLE ELSE buf[j]]

\* What every step of send_full_buf and of the raw interface leaves alone
Caller(n) ==
    /\ hw_writes' = hw_writes + n
    /\ wrote' = "none"
    /\ UNCHANGED <<iter, addr_a, addr_b, buf_a, buf_b, live, blanks_fed, toggle,
                   seq, chain_a, pad, grp>>
    /\ UNCHANGED <<input, yielded, dead_reads, call, colors, addr_s, fnVars>>

\* Entry of send_full_buf(colors, scratch)
CallSendFullBuf ==
    /\ pc = "idle"
    /\ \E cs \in ColorSlices, a \in ScratchAddrs :
         \E n \in ScratchLens(Len(cs)) :
             /\ colors' = cs
             /\ scratch' = OldData(n)
             /\ addr_s' = a
    /\ pc' = "sfb_check"
    /\ ret' = "none"
    /\ call' = "send_full_buf"
    /\ input' = <<>> /\ yielded' = <<>> /\ played' = <<>> /\ cur' = <<>>
    /\ sent' = <<>>
    /\ hw_writes' = 0
    /\ wrote' = "none"
    /\ dead_reads' = FALSE
    /\ at_call' = <<regVars, engVars>>
    /\ UNCHANGED <<iter, addr_a, addr_b, buf_a, buf_b, live, blanks_fed, toggle,
                   seq, chain_a, pad, grp>>
    /\ UNCHANGED <<regVars, engVars, fnVars>>

\* if scratch.len() < Self::u16s_needed_slice(colors) { return Err(()); }
SfbCheckLen ==
    /\ pc = "sfb_check"
    /\ IF ScratchTooShort(Len(scratch), u16s_needed_slice(colors, TRUE))
       THEN pc' = "idle" /\ ret' = "Err"
       ELSE pc' = "sfb_fill" /\ UNCHANGED ret
    /\ Caller(0)
    /\ UNCHANGED <<regVars, engVars, played, cur, sent, scratch, at_call>>

\* The fill loop, then start = colors.len() * 24, end = start + 40 and the
\* idle tail
SfbFill ==
    /\ pc = "sfb_fill"
    /\ LET f == FillChunks(colors, scratch)
           start == Len(colors) * FRAME
       IN  IF f.res = "Err"
           THEN /\ pc' = "idle" /\ ret' = "Err"
                /\ scratch' = f.buf
           ELSE /\ pc' = "sfb_loop" /\ UNCHANGED ret
                /\ scratch' = IdleTail(f.buf, start, start + TAIL)
    /\ Caller(0)
    /\ UNCHANGED <<regVars, engVars, played, cur, sent, at_call>>

\* self.pwm.loop_.write(|w| w.cnt().disabled())
SfbDisableLoop_skip ==
    /\ pc = "sfb_loop"
    /\ pc' = "sfb_start"
    /\ at_call' = NoSnapshot
    /\ Caller(1)
    /\ UNCHANGED <<ret, regVars, engVars, played, cur, sent, scratch>>
SfbDisableLoop ==
    /\ pc = "sfb_loop"
    /\ loop_cnt' = 0
    /\ pc' = "sfb_start"
    /\ at_call' = NoSnapshot
    /\ Caller(1)
    /\ UNCHANGED <<ret, seq0_ptr, seq0_cnt, seq1_ptr, seq1_cnt, events_seqend0,
                   events_loopsdone, engVars, played, cur, sent, scratch>>

\* self.start_send_raw(&scratch[..end])?
SfbStart ==
    /\ pc = "sfb_start"
    /\ LET end == Len(colors) * FRAME + TAIL
       IN  IF RawRejects(end, addr_s)
           THEN /\ pc' = "idle" /\ ret' = "Err"
                /\ Caller(0)
                /\ UNCHANGED <<regVars, engVars, played, cur>>
           ELSE /\ seq0_ptr' = addr_s
                /\ seq0_cnt' = end
                /\ events_seqend0' = 0
                /\ TaskSeqStart0
                /\ pc' = "sfb_wait"
                /\ Caller(4)
                /\ UNCHANGED <<ret, loop_cnt, seq1_ptr, seq1_cnt, events_loopsdone>>
    /\ UNCHANGED <<sent, scratch, at_call>>

\* while !self.is_done_raw() {}  Ok(())
SfbWait_nowait ==
    /\ pc = "sfb_wait"
    /\ pc' = "idle" /\ ret' = "Ok"
    /\ Caller(0)
    /\ UNCHANGED <<regVars, engVars, played, cur, sent, scratch, at_call>>
SfbWait ==
    /\ pc = "sfb_wait"
    /\ is_done_raw
    /\ pc' = "idle" /\ ret' = "Ok"
    /\ Caller(0)
    /\ UNCHANGED <<regVars, engVars, played, cur, sent, scratch, at_call>>

(***************************************************************************)
(* Spec: a driver fresh from Pwm::new, then any number of write and        *)
(* send_full_buf calls, each made when the one before has returned.        *)
(***************************************************************************)
InitDriver ==
    /\ pc = "idle" /\ ret = "none" /\ iter = <<>>
    /\ addr_a = 0 /\ addr_b = 0
    /\ buf_a = ZeroBuf /\ buf_b = ZeroBuf
    /\ live = FALSE
    /\ blanks_fed = 0 /\ toggle = FALSE
    /\ seq = Blank /\ chain_a = FALSE /\ pad = 0 /\ grp = 0
    /\ loop_cnt = 0
    /\ seq0_ptr = 0 /\ seq0_cnt = 0 /\ seq1_ptr = 0 /\ seq1_cnt = 0
    /\ events_seqend0 = 0 /\ events_loopsdone = 0
    /\ hw_state = "idle" /\ hw_pos = 0 /\ hw_loops = 0
    /\ input = <<>> /\ yielded = <<>> /\ played = <<>> /\ cur = <<>>
    /\ hw_writes = 0
    /\ at_call = NoSnapshot
    /\ wrote = "none"
    /\ dead_reads = FALSE
    /\ call = "none"
    /\ colors = <<>> /\ scratch = <<>> /\ addr_s = 0 /\ sent = <<>>

FnIdle ==
    /\ fn_op = "none" /\ fn_pc = "in"
    /\ fn_color = Black /\ fn_buf = <<>> /\ fn_slice = <<>>
    /\ fn_leds = Usize(0, 0) /\ fn_checks = FALSE
    /\ fn_out = [res |-> "none"]

Init == InitDriver /\ FnIdle

Next ==
    \/ CallWrite
    \/ PrimeTwo \/ PrimeOne \/ PrimeIntermittent \/ PrimeEmpty
    \/ SetupLoop \/ SetupClear \/ SetSeq1 \/ StartSend
    \/ LoopNext
    \/ WaitSeqEnd \/ RefillAPixel \/ RefillABlank
    \/ WaitLoopsDone \/ RestartSeq0 \/ ClearSeqEnd \/ ClearLoopsDone
    \/ RefillBPixel \/ RefillBBlank
    \/ FinalWait
    \/ CallSendFullBuf \/ SfbCheckLen \/ SfbFill \/ SfbDisableLoop \/ SfbStart
    \/ SfbWait
    \/ HwFetch \/ HwSeqEnd0 \/ HwSeqEnd1

Spec == Init /\ [][Next]_vars

(***************************************************************************)
(* SpecRaw: the raw interface.  start_send_raw and set_seq1_raw are called *)
(* with buffers of any length up to MaxRawLen at the addresses RawPtrs, on *)
(* a driver fresh from Pwm::new or left behind by a completed write, and   *)
(* without waiting for the engine between the calls.                       *)
(***************************************************************************)
\* The registers as a completed write on two or more colors leaves them
AfterWrite(seqend) ==
    <<1, SRAM_LOWER + 4096, FRAME, SRAM_LOWER + 4096 + 2 * FRAME, FRAME, seqend, 1>>

InitRaw ==
    /\ pc = "idle" /\ ret = "none" /\ iter = <<>>
    /\ addr_a = 0 /\ addr_b = 0
    /\ buf_a = ZeroBuf /\ buf_b = ZeroBuf
    /\ live = FALSE
    /\ blanks_fed = 0 /\ toggle = FALSE
    /\ seq = Blank /\ chain_a = FALSE /\ pad = 0 /\ grp = 0
    /\ \E t \in {<<0, 0, 0, 0, 0, 0, 0>>, AfterWrite(0), AfterWrite(1)} :
         /\ loop_cnt = t[1]
         /\ seq0_ptr = t[2] /\ seq0_cnt = t[3]
         /\ seq1_ptr = t[4] /\ seq1_cnt = t[5]
         /\ events_seqend0 = t[6] /\ events_loopsdone = t[7]
    /\ hw_state = "idle" /\ hw_pos = 0 /\ hw_loops = 0
    /\ input = <<>> /\ yielded = <<>> /\ played = <<>> /\ cur = <<>>
    /\ hw_writes = 0
    /\ at_call = NoSnapshot
    /\ wrote = "none"
    /\ dead_reads = FALSE
    /\ call = "none"
    /\ colors = <<>> /\ scratch = <<>> /\ addr_s = 0 /\ sent = <<>>
    /\ FnIdle

\* The caller takes a buffer of n samples at address p and calls op on it
CallRaw ==
    /\ pc = "idle"
    /\ \E op \in RawOps, n \in 0 .. MaxRawLen, p \in RawPtrs :
         /\ call' = op
         /\ pc' = op
         /\ scratch' = [j \in 1 .. n |-> IDLE]
         /\ addr_s' = p
    /\ ret' = "none"
    /\ colors' = <<>>
    /\ input' = <<>> /\ yielded' = <<>> /\ played' = <<>> /\ sent' = <<>>
    /\ hw_writes' = 0
    /\ wrote' = "none"
    /\ dead_reads' = FALSE
    /\ UNCHANGED <<iter, addr_a, addr_b, buf_a, buf_b, live, blanks_fed, toggle,
                   seq, chain_a, pad, grp>>
    /\ UNCHANGED <<regVars, engVars, cur, at_call, fnVars>>

\* pub unsafe fn start_send_raw(&mut self, buf: *const [u16]) -> Result<(), ()>
start_send_raw ==
    /\ pc = "start_send_raw"
    /\ pc' = "idle"
    /\ IF RawRejects(Len(scratch), addr_s)
       THEN /\ ret' = "Err"
            /\ Caller(0)
            /\ UNCHANGED <<regVars, engVars, played, cur>>
       ELSE /\ seq0_ptr' = addr_s
            /\ seq0_cnt' = Len(scratch)
            /\ events_seqend0' = 0
            /\ TaskSeqStart0
            /\ ret' = "Ok"
            /\ Caller(4)
            /\ UNCHANGED <<loop_cnt, seq1_ptr, seq1_cnt, events_loopsdone>>
    /\ UNCHANGED <<sent, scratch, at_call>>

\* pub unsafe fn set_seq1_raw(&mut self, buf: *const [u16]) -> Result<(), ()>
set_seq1_raw ==
    /\ pc = "set_seq1_raw"
    /\ pc' = "idle"
    /\ IF RawRejects(Len(scratch), addr_s)
       THEN /\ ret' = "Err"
            /\ Caller(0)
            /\ UNCHANGED regVars
       ELSE /\ seq1_ptr' = addr_s
            /\ seq1_cnt' = Len(scratch)
            /\ ret' = "Ok"
            /\ Caller(2)
            /\ UNCHANGED <<loop_cnt, seq0_ptr, seq0_cnt, events_seqend0,
                           events_loopsdone>>
    /\ UNCHANGED <<engVars, played, cur, sent, scratch, at_call>>

NextRaw ==
    \/ CallRaw \/ start_send_raw \/ set_seq1_raw
    \/ HwFetch \/ HwSeqEnd0 \/ HwSeqEnd1

SpecRaw == InitRaw /\ [][NextRaw]_vars

(***************************************************************************)
(* SpecFn: fill_buf, u16s_needed_ct and u16s_needed_slice, each applied    *)
(* once to an input drawn from a bounded set.  The driver stays as         *)
(* Pwm::new left it.                                                       *)
(***************************************************************************)
ChanVals == {0, 1, 128, 255} \cup {(i * 151) % 256 : i \in 1 .. MaxChanIdx}

FnColors == {[r |-> x, g |-> y, b |-> z] : x \in ChanVals, y \in ChanVals, z \in ChanVals}

\* Destinations of every length up to MaxBufLen, zeroed or holding old data
FnBufs ==
    {[j \in 1 .. n |-> 0] : n \in 0 .. MaxBufLen}
    \cup {[j \in 1 .. n |-> 4000 + j] : n \in 0 .. MaxBufLen}

\* The largest count whose 24 * leds + 40 fits a 32-bit usize: 178,956,968
MaxExactLeds == Usize(2730, 43688)

FnLeds ==
    {Usize(0, n) : n \in 0 .. MaxLeds}
    \cup {Usize(MaxExactLeds.hi, MaxExactLeds.lo + d) : d \in (0 - NearSpan) .. NearSpan}
    \cup {Usize(1, 0), Usize(2730, 0), Usize(2731, 0), Usize(LIMB - 1, LIMB - 1)}

FnSlices == UNION {[1 .. n -> {Palette(1), Palette(2)}] : n \in 0 .. MaxSlice}

InitFn ==
    /\ InitDriver
    /\ fn_pc = "in"
    /\ fn_out = [res |-> "none"]
    /\ \/ /\ fn_op = "fill_buf"
          /\ fn_color \in FnColors
          /\ fn_buf \in FnBufs
          /\ fn_slice = <<>> /\ fn_leds = Usize(0, 0) /\ fn_checks = FALSE
       \/ /\ fn_op = "u16s_needed_ct"
          /\ fn_leds \in FnLeds
          /\ fn_checks \in BOOLEAN
          /\ fn_color = Black /\ fn_buf = <<>> /\ fn_slice = <<>>
       \/ /\ fn_op = "u16s_needed_slice"
          /\ fn_slice \in FnSlices
          /\ fn_checks \in BOOLEAN
          /\ fn_color = Black /\ fn_buf = <<>> /\ fn_leds = Usize(0, 0)

FnFillBuf ==
    /\ fn_pc = "in" /\ fn_op = "fill_buf"
    /\ fn_out' = fill_buf(fn_color, fn_buf)
    /\ fn_pc' = "out"
    /\ UNCHANGED <<fn_op, fn_color, fn_buf, fn_slice, fn_leds, fn_checks>>
    /\ UNCHANGED <<cpuVars, regVars, engVars, obsVars, sfbVars>>

FnNeededCt ==
    /\ fn_pc = "in" /\ fn_op = "u16s_needed_ct"
    /\ fn_out' = u16s_needed_ct(fn_leds, fn_checks)
    /\ fn_pc' = "out"
    /\ UNCHANGED <<fn_op, fn_color, fn_buf, fn_slice, fn_leds, fn_checks>>
    /\ UNCHANGED <<cpuVars, regVars, engVars, obsVars, sfbVars>>

FnNeededSlice ==
    /\ fn_pc = "in" /\ fn_op = "u16s_needed_slice"
    /\ fn_out' = u16s_needed_slice(fn_slice, fn_checks)
    /\ fn_pc' = "out"
    /\ UNCHANGED <<fn_op, fn_color, fn_buf, fn_slice, fn_leds, fn_checks>>
    /\ UNCHANGED <<cpuVars, regVars, engVars, obsVars, sfbVars>>

NextFn == FnFillBuf \/ FnNeededCt \/ FnNeededSlice

SpecFn == InitFn /\ [][NextFn]_vars

(***************************************************************************)
(* Properties.                                                             *)
(***************************************************************************)
Returned(r) == pc = "idle" /\ ret = r

\* The call was given N >= 1 colors and nothing else
WellFormedInput == input # <<>> /\ \A i \in DOMAIN input : input[i].tag = "Some"

\* The engine is fetching from the buffer at ptr, or will before the loop
\* it is playing completes (the descriptor is armed)
EngineUses(ptr) ==
    \/ hw_state # "idle" /\ SeqPtr = ptr
    \/ hw_state = "seq0" /\ hw_loops > 0 /\ seq1_ptr = ptr
    \/ hw_state = "seq1" /\ hw_loops > 1 /\ seq0_ptr = ptr

\* C1: during write the CPU never stores into buf_a or buf_b while the
\* engine is fetching from that buffer or has it armed for the loop in
\* progress, and buf_a is refilled only with SEQEND[0] observed.
C1_NoStoreWhileInUse ==
    /\ wrote \in {"a", "both"} => ~EngineUses(addr_a)
    /\ wrote \in {"b", "both"} => ~EngineUses(addr_b)
    /\ pc = "fillA" => is_done_raw

\* The CPU stored into buf_b while the engine was part-way through it
C1_StoreDuringFetch ==
    wrote = "b" /\ hw_state = "seq1" /\ seq1_ptr = addr_b
                /\ hw_pos > 0 /\ hw_pos < seq1_cnt

\* C2: for an input of N >= 1 colors the frames shifted out are the pixel
\* frames of color 1 .. color N in order, each once, then idle frames only;
\* all N have been shifted out when write returns Ok.
C2_FramesInOrder ==
    WellFormedInput =>
        /\ \A i \in DOMAIN played :
              played[i] = IF i <= Len(input) THEN PixelFrame(input[i].v) ELSE IdleFrame
        /\ Returned("Ok") => Len(played) >= Len(input)

\* C3: when write returns Ok for N >= 1 colors (N even or odd) the last
\* A+B loop played was idle in both halves: at least N + 2 frames were
\* played, the last two are idle, and no color frame follows frame N.
C3_EndsWithIdlePair ==
    (Returned("Ok") /\ WellFormedInput) =>
        /\ Len(played) >= Len(input) + 2
        /\ played[Len(played)] = IdleFrame
        /\ played[Len(played) - 1] = IdleFrame
        /\ \A i \in DOMAIN played : i > Len(input) => played[i].kind # "pixel"

\* C4: no busy-wait of write can spin forever: whenever the CPU waits for
\* SEQEND[0] or LOOPSDONE, the flag is set or the engine has yet to raise it.
C4_NoWaitStuck ==
    /\ pc = "waitA" => (events_seqend0 = 1 \/ hw_state = "seq0")
    /\ pc \in {"waitB", "final"} => (events_loopsdone # 0 \/ hw_state # "idle")

\* C5: when write returns Ok after starting the engine, LOOPSDONE is set
\* and the engine is idle with whole A+B loops played; the engine never
\* fetches from buf_a or buf_b once they are gone.
C5_IdleAtReturn ==
    /\ (call = "write" /\ Returned("Ok") /\ hw_writes > 0) =>
          /\ events_loopsdone = 1
          /\ hw_state = "idle"
          /\ cur = <<>>
          /\ Len(played) >= 2 /\ Len(played) % 2 = 0
    /\ ~dead_reads

C5_Witness ==
    call = "write" /\ Returned("Ok") /\ hw_writes > 0 /\ Len(played) = 6

\* The call is a write whose iterator never yields anything
EmptyInput == call = "write" /\ \A i \in DOMAIN input : input[i].tag = "None"

\* C6: write on an empty input returns Ok without writing any PWM register,
\* event or task; registers and engine are as the call found them.
C6_EmptyNoHardware ==
    (pc = "idle" /\ ret # "none" /\ EmptyInput) =>
        /\ ret = "Ok"
        /\ hw_writes = 0
        /\ <<regVars, engVars>> = at_call
        /\ played = <<>>

\* An empty write on a driver an earlier write has used
C6_Witness ==
    Returned("Ok") /\ EmptyInput /\ Len(yielded) = 2 /\ loop_cnt = 1
                   /\ events_loopsdone = 1

\* next() returned a value after it had returned None
SomeAfterNone ==
    \E i, j \in DOMAIN yielded :
        i < j /\ yielded[i].tag = "None" /\ yielded[j].tag = "Some"

\* C7: whenever the iterator yields a value after it has signalled the end,
\* at any position, write returns Err and that value reaches no buffer.
C7_IntermittentRejected ==
    /\ SomeAfterNone => ret # "Ok"
    /\ \A i, j \in DOMAIN yielded :
          (i < j /\ yielded[i].tag = "None" /\ yielded[j].tag = "Some") =>
              \A k \in DOMAIN played : played[k] # PixelFrame(yielded[j].v)

(***************************************************************************)
(* Properties of the pure functions (SpecFn).                              *)
(***************************************************************************)
FnDone(op) == fn_pc = "out" /\ fn_op = op

Sym(bit) == IF bit = 1 THEN T1H ELSE T0H

\* C8: for every color and every destination of at least 24 slots fill_buf
\* returns Ok with slots 0..7 from g, 8..15 from r, 16..23 from b, slot
\* 8k + i holding the symbol of bit 7 - i; decoding gives the color back.
C8_FillBufEncodes ==
    (FnDone("fill_buf") /\ Len(fn_buf) >= FRAME) =>
        /\ fn_out.res = "Ok"
        /\ \A i \in 0 .. 7 :
              /\ fn_out.buf[i + 1] = Sym(Bit(fn_color.g, 7 - i))
              /\ fn_out.buf[8 + i + 1] = Sym(Bit(fn_color.r, 7 - i))
              /\ fn_out.buf[16 + i + 1] = Sym(Bit(fn_color.b, 7 - i))
        /\ Decode(SubSeq(fn_out.buf, 1, FRAME)) = PixelFrame(fn_color)
        /\ fn_out.buf[8] = Sym(fn_color.g % 2)
        /\ fn_out.buf[16] = Sym(fn_color.r % 2)
        /\ fn_out.buf[24] = Sym(fn_color.b % 2)

C8_Witness ==
    FnDone("fill_buf") /\ Len(fn_buf) = FRAME + 1 /\ fn_out.res = "Ok"
        /\ fn_color = [r |-> 1, g |-> 128, b |-> 151]

\* C9: fill_buf on a destination shorter than 24 slots returns Err and
\* leaves every slot as it was.
C9_ShortBufUntouched ==
    (FnDone("fill_buf") /\ Len(fn_buf) < FRAME) =>
        fn_out.res = "Err" /\ fn_out.buf = fn_buf

C9_Witness ==
    FnDone("fill_buf") /\ Len(fn_buf) = FRAME - 1 /\ fn_buf[1] # 0
        /\ fn_out.res = "Err"

\* The count u16s_needed_ct or u16s_needed_slice was applied to
FnCount == IF fn_op = "u16s_needed_slice" THEN Usize(0, Len(fn_slice)) ELSE fn_leds

\* v = 24 * n + 40 exactly, checked by the inverse: (v - 40) / 24 = n
Exact(n, v) ==
    LET borrow == v.lo < 40
        uhi == IF borrow THEN v.hi - 1 ELSE v.hi
        ulo == IF borrow THEN v.lo + LIMB - 40 ELSE v.lo - 40
        t   == (uhi % 24) * LIMB + ulo
    IN  /\ uhi >= 0
        /\ t % 24 = 0
        /\ Usize(uhi \div 24, t \div 24) = n

\* 24 * n + 40 fits a usize
Fits(n) ==
    \/ n.hi < MaxExactLeds.hi
    \/ n.hi = MaxExactLeds.hi /\ n.lo <= MaxExactLeds.lo

\* C10 as claimed: u16s_needed_ct(N) is 24 * N + 40 for every usize N and
\* never wraps; u16s_needed_slice(s) is u16s_needed_ct(len(s)).
C10_ExactForEveryCount ==
    (FnDone("u16s_needed_ct") \/ FnDone("u16s_needed_slice")) =>
        fn_out.kind = "val" /\ Exact(FnCount, fn_out.v)

\* C10 amended: u16s_needed_ct(N) is 24 * N + 40 whenever that fits a usize
\* (N <= 178,956,968), u16s_needed_ct(0) is 40 and u16s_needed_slice(s) is
\* u16s_needed_ct(len(s)); for a larger N the computation overflows: it
\* panics under overflow checks and wraps to another value without them.
C10_ExactWhileItFits ==
    (FnDone("u16s_needed_ct") \/ FnDone("u16s_needed_slice")) =>
        /\ Fits(FnCount) => fn_out.kind = "val" /\ Exact(FnCount, fn_out.v)
        /\ FnCount = Usize(0, 0) => fn_out.v = Usize(0, 40)
        /\ ~Fits(FnCount) =>
              IF fn_checks THEN fn_out.kind = "panic"
              ELSE fn_out.kind = "val" /\ ~Exact(FnCount, fn_out.v)

C10_Witness ==
    FnDone("u16s_needed_ct") /\ fn_leds = MaxExactLeds /\ fn_out.kind = "val"
        /\ fn_out.v = Usize(LIMB - 1, LIMB - 24)

(***************************************************************************)
(* Properties of send_full_buf (Spec).                                     *)
(***************************************************************************)
\* send_full_buf has returned
SfbReturned == call = "send_full_buf" /\ pc = "idle" /\ ret # "none"

\* 24 * N + 40 for the colors slice of the call
Needed == FRAME * Len(colors) + TAIL

\* The call returned Ok having handed the engine one transfer, the first
\* 24 * N + 40 slots of scratch: N pixel frames and 40 idle slots; the
\* engine completed it before the return and the rest of scratch is as the
\* caller left it.
OneTransferSent ==
    /\ ret = "Ok"
    /\ seq0_ptr = addr_s /\ seq0_cnt = Needed
    /\ sent = <<[seq |-> 0, data |-> SubSeq(scratch, 1, Needed)]>>
    /\ \A i \in 1 .. Len(colors) :
          /\ Decode(SubSeq(scratch, FRAME * (i - 1) + 1, FRAME * i))
                = PixelFrame(colors[i])
          /\ \A k \in 0 .. 7 :
                scratch[FRAME * (i - 1) + k + 1] = Sym(Bit(colors[i].g, 7 - k))
    /\ \A j \in (FRAME * Len(colors) + 1) .. Needed : scratch[j] = IDLE
    /\ \A j \in (Needed + 1) .. Len(scratch) : scratch[j] = OldData(Len(scratch))[j]
    /\ events_seqend0 = 1 /\ hw_state = "idle" /\ cur = <<>>

C12_ShortScratchRejected ==
    (SfbReturned /\ Len(scratch) < Needed) =>
        /\ ret = "Err"
        /\ hw_writes = 0
        /\ <<regVars, engVars>> = at_call
        /\ sent = <<>> /\ cur = <<>>
        /\ scratch = OldData(Len(scratch))

\* One slot short, on a driver an earlier write has used
C12_Witness ==
    SfbReturned /\ ret = "Err" /\ Len(colors) = 1 /\ Len(scratch) = Needed - 1
        /\ loop_cnt = 1 /\ ~PtrOutOfRange(addr_s)

(***************************************************************************)
(* Properties of the raw interface (SpecRaw).                              *)
(***************************************************************************)
\* start_send_raw or set_seq1_raw has returned r
RawReturned(r) == call \in RawOps /\ pc = "idle" /\ ret = r

\* C13: start_send_raw and set_seq1_raw, called with an empty buffer or with
\* a buffer whose address is outside the window, return Err and leave the
\* hardware as it was: no register, event flag or task is written.
C13_RejectedLeavesHardware ==
    [][(/\ pc \in RawOps /\ pc' = "idle"
        /\ (scratch = <<>> \/ addr_s < SRAM_LOWER \/ addr_s > SRAM_UPPER))
          => (ret' = "Err" /\ hw_writes' = 0 /\ UNCHANGED <<regVars, engVars>>)]_vars

\* A non-empty buffer above the window is refused while the engine plays
\* the sequence of an earlier call
C13_Witness ==
    RawReturned("Err") /\ Len(scratch) > 0 /\ addr_s > SRAM_UPPER
        /\ hw_state = "seq0" /\ hw_pos > 0 /\ events_seqend0 = 0

\* C14: every buffer start_send_raw or set_seq1_raw accepts lies within the
\* window from its first sample to its last: both addresses are in
\* SRAM_LOWER .. SRAM_UPPER.
C14_AcceptedInsideWindow ==
    RawReturned("Ok") =>
        /\ addr_s >= SRAM_LOWER /\ addr_s <= SRAM_UPPER
        /\ addr_s + 2 * (Len(scratch) - 1) >= SRAM_LOWER
        /\ addr_s + 2 * (Len(scratch) - 1) <= SRAM_UPPER

(***************************************************************************)
(* Properties of write and send_full_buf together (Spec).                  *)
(***************************************************************************)
\* C15: in write and in send_full_buf, when a sample buffer lies outside
\* the DMA window the call fails before the hardware is touched: no PWM
\* register, LOOP.CNT and LOOPSDONE included, is written, and the call does
\* not get past the address checks.
C15_OutsideWindowUntouched ==
    /\ (call = "write" /\ live /\ (PtrOutOfRange(addr_a) \/ PtrOutOfRange(addr_b)))
          => /\ hw_writes = 0
             /\ pc \in {"prime", "setup_loop", "setup_clear", "set_seq1", "start"}
    /\ (call = "send_full_buf" /\ PtrOutOfRange(addr_s))
          => /\ hw_writes = 0
             /\ pc \in {"sfb_check", "sfb_fill", "sfb_loop", "sfb_start", "idle"}
             /\ ret # "Ok"

\* C16: once write (on any input, the empty one included) or send_full_buf
\* has returned Ok, is_done_raw returns true, at every later moment up to
\* the next call; is_done_raw itself reads one flag and changes nothing.
C16_DoneAfterCompletedCall ==
    (call \in {"write", "send_full_buf"} /\ Returned("Ok")) => is_done_raw

\* C17: across any sequence of write and send_full_buf calls the CPU
\* triggers SEQSTART[0] only with the engine idle, so the engine reads one
\* descriptor at a time and at most one other (sequence 1 of the single
\* loop in progress) is armed.
C17_StartOnlyWhenIdle ==
    /\ [][(/\ pc \in {"start", "restart", "sfb_start"}
            /\ pc' \in {"next", "clear_seqend", "sfb_wait"})
              => (hw_state = "idle" /\ cur = <<>> /\ hw_state' = "seq0")]_vars
    /\ [](hw_loops \in {0, 1} /\ (hw_state = "seq1" => hw_loops = 1))

\* The B side has restarted the loop for the third time
C17_Witness ==
    call = "write" /\ pc = "clear_seqend" /\ hw_state = "seq0" /\ hw_pos = 0
        /\ Len(played) = 4

(***************************************************************************)
(* Properties of write's refill loop (Spec).                               *)
(***************************************************************************)
\* The call is a write on N >= 1 colors, N odd and at least 3
OddFromThree == Len(input) % 2 = 1 /\ Len(input) >= 3

\* C18 as claimed: in write on N >= 1 colors the loop ends early, once two
\* idle frames have been fed, so the three padding items are never all
\* consumed: at least one is left.
C18_PaddingNeverDrained ==
    (call = "write" /\ live /\ WellFormedInput) => pad >= 1

\* C18 amended: the cutoff is tested after a B-side refill only.  The loop
\* ends at the first B-side refill that leaves blanks_fed >= 2; for even N
\* and for N = 1 one padding item is left over, for odd N >= 3 the second
\* idle frame is fed on the A side, the loop goes on and the third padding
\* item is consumed too.
C18_PaddingByParity ==
    (call = "write" /\ live /\ WellFormedInput) =>
        /\ pc = "final" =>
              /\ ~chain_a
              /\ pad = IF OddFromThree THEN 0 ELSE 1
              /\ blanks_fed = IF Len(input) % 2 = 1 THEN 3 ELSE 2
        /\ (pc = "next" /\ ~toggle) => blanks_fed < 2
        /\ (pc = "next" /\ toggle) => blanks_fed <= 2
        /\ (pc = "next" /\ blanks_fed = 2) => Len(input) % 2 = 1
        /\ pad = 0 => OddFromThree

\* Three colors: all three padding items have been consumed at the exit
C18_Witness ==
    call = "write" /\ WellFormedInput /\ Len(input) = 3 /\ pc = "final"
        /\ pad = 0 /\ blanks_fed = 3

\* C19: whatever calls completed before it, a send_full_buf transfer is
\* one-shot: LOOP.CNT is 0 before the engine is started, the engine plays
\* sequence 0 over scratch once and stops, and sequence 1, whose pointer may
\* still name the buf_b of an earlier write, is never played.
C19_OneShot ==
    call = "send_full_buf" =>
        /\ pc \in {"sfb_start", "sfb_wait"} => loop_cnt = 0
        /\ hw_state # "seq1" /\ hw_loops = 0
        /\ hw_state = "seq0" =>
              /\ pc = "sfb_wait"
              /\ seq0_ptr = addr_s /\ seq0_cnt = Needed
        /\ ~dead_reads
        /\ Len(sent) <= 1
        /\ \A i \in DOMAIN sent : sent[i].seq = 0
        /\ Returned("Ok") => (Len(sent) = 1 /\ hw_state = "idle")

\* send_full_buf completed on a driver whose SEQ[1] still names the buf_b
\* of an earlier write
C19_Witness ==
    call = "send_full_buf" /\ Returned("Ok") /\ Len(sent) = 1
        /\ seq1_cnt = FRAME /\ seq1_ptr = SRAM_LOWER + 4096 + 2 * FRAME

====
